---- MODULE Spec2Model ----
(***************************************************************************)
(* Model of src/reddit.py: the heuristics of the Reddit unanswered-        *)
(* questions finder (promotional detector, relevance scorer, comment       *)
(* quality filter, unanswered classifier) and the search/classification    *)
(* pass that composes them.                                                *)
(*                                                                         *)
(* Python str values are TLA+ strings; substring search, lower(), strip()  *)
(* and split() are computed character by character.  A Python float is    *)
(* the exact IEEE-754 double, held as an integer number of 2^-60 units.    *)
(***************************************************************************)
EXTENDS Integers, Sequences, FiniteSets, TLC

VARIABLES
    pc,            \* position of the function or pass being executed
    title,         \* submission.title / first argument of the text functions
    content,       \* submission.selftext (an optional string) / comment body
    keyword,       \* the search keyword
    out,           \* value returned by the function under study
    prev,          \* value returned before the text was extended
    submission,    \* the post handed to is_unanswered_enhanced
    max_comments,  \* its threshold argument
    reddit,        \* the API client: what each search term returns
    verdicts,      \* what the filter functions return on the client's posts
    tz,            \* the local time zone of the process
    params,        \* arguments of search_unanswered_questions_enhanced
    term,          \* index of the next search term
    queries,       \* the calls of search(), in order
    all_submissions,
    unique_submissions,   \* the deduplicated posts not yet processed
    processed,
    found_unanswered,
    questions,
    warnings,      \* search terms reported by st.warning
    calls          \* per processed post, the filters called and their verdicts

textVars == <<pc, title, content, keyword, out, prev>>
classifierVars == <<submission, max_comments>>
searchVars == <<reddit, verdicts, tz, params, term, queries, all_submissions,
                unique_submissions, processed, found_unanswered, questions, warnings, calls>>
vars == <<textVars, classifierVars, searchVars>>

-----------------------------------------------------------------------------
(* Python values                                                           *)

None == [some |-> FALSE, v |-> ""]
Some(s) == [some |-> TRUE, v |-> s]

\* "if x" on an optional string: None and "" are falsy
Truthy(x) == x.some /\ x.v # ""

\* f"{x}" on an optional string
Format(x) == IF x.some THEN x.v ELSE "None"

Min(a, b) == IF a <= b THEN a ELSE b

\* an optional integer that is None
NoneInt == [some |-> FALSE, v |-> 0]

\* the idle value of the classifier's argument while another function runs
NoSubmission == [num_comments |-> NoneInt, fault |-> "none", comments |-> <<>>]

Range(f) == {f[i] : i \in DOMAIN f}

\* the search pass is not running
SearchIdle ==
    /\ reddit = <<>>
    /\ verdicts = <<>>
    /\ tz = <<>>
    /\ params = <<>>
    /\ term = 0
    /\ queries = <<>>
    /\ all_submissions = <<>>
    /\ unique_submissions = <<>>
    /\ processed = 0
    /\ found_unanswered = 0
    /\ questions = <<>>
    /\ warnings = <<>>
    /\ calls = <<>>

-----------------------------------------------------------------------------
(* str methods                                                             *)

LowerChar(c) ==
    CASE c = "A" -> "a" [] c = "B" -> "b" [] c = "C" -> "c" [] c = "D" -> "d"
      [] c = "E" -> "e" [] c = "F" -> "f" [] c = "G" -> "g" [] c = "H" -> "h"
      [] c = "I" -> "i" [] c = "J" -> "j" [] c = "K" -> "k" [] c = "L" -> "l"
      [] c = "M" -> "m" [] c = "N" -> "n" [] c = "O" -> "o" [] c = "P" -> "p"
      [] c = "Q" -> "q" [] c = "R" -> "r" [] c = "S" -> "s" [] c = "T" -> "t"
      [] c = "U" -> "u" [] c = "V" -> "v" [] c = "W" -> "w" [] c = "X" -> "x"
      [] c = "Y" -> "y" [] c = "Z" -> "z"
      [] c = "À" -> "à" [] c = "Á" -> "á" [] c = "Â" -> "â" [] c = "Ã" -> "ã"
      [] c = "Ä" -> "ä" [] c = "Å" -> "å" [] c = "Æ" -> "æ" [] c = "Ç" -> "ç"
      [] c = "È" -> "è" [] c = "É" -> "é" [] c = "Ê" -> "ê" [] c = "Ë" -> "ë"
      [] c = "Ì" -> "ì" [] c = "Í" -> "í" [] c = "Î" -> "î" [] c = "Ï" -> "ï"
      [] c = "Ð" -> "ð" [] c = "Ñ" -> "ñ" [] c = "Ò" -> "ò" [] c = "Ó" -> "ó"
      [] c = "Ô" -> "ô" [] c = "Õ" -> "õ" [] c = "Ö" -> "ö" [] c = "Ø" -> "ø"
      [] c = "Ù" -> "ù" [] c = "Ú" -> "ú" [] c = "Û" -> "û" [] c = "Ü" -> "ü"
      [] c = "Ý" -> "ý" [] c = "Þ" -> "þ"
      [] OTHER -> c

\* s[i] (1-based) as a one-character string
CharAt(s, i) == SubSeq(s, i, i)

\* str.lower(): character by character, the string halved at each step
RECURSIVE Lower(_)
Lower(s) ==
    IF Len(s) = 0 THEN ""
    ELSE IF Len(s) = 1 THEN LowerChar(s)
    ELSE LET half == Len(s) \div 2
         IN  Lower(SubSeq(s, 1, half)) \o Lower(SubSeq(s, half + 1, Len(s)))

\* "needle in hay"
Contains(needle, hay) ==
    \E i \in 0..(Len(hay) - Len(needle)) :
        SubSeq(hay, i + 1, i + Len(needle)) = needle

\* str.startswith(prefix)
StartsWith(s, prefix) ==
    Len(prefix) <= Len(s) /\ SubSeq(s, 1, Len(prefix)) = prefix

\* str.endswith(suffix)
EndsWith(s, suffix) ==
    Len(suffix) <= Len(s) /\ SubSeq(s, Len(s) - Len(suffix) + 1, Len(s)) = suffix

\* str.isspace() of one character, among the characters a string of this
\* module can hold (U+0000 to U+00FF): tab, line feed, vertical tab, form
\* feed, carriage return, U+001C to U+001F, space, U+0085, U+00A0
IsSpace(c) ==
    c \in {" ", "\t", "\n", "\r", "\f", "", "", "", "", "",
           "", " "}

\* the first index >= i of s that holds (blank = FALSE) a non-blank or
\* (blank = TRUE) a blank character; Len(s) + 1 when there is none
NextAt(s, i, blank) ==
    LET hits == {j \in i..Len(s) : IsSpace(CharAt(s, j)) = blank}
    IN  IF hits = {} THEN Len(s) + 1
        ELSE CHOOSE j \in hits : \A k \in hits : j <= k

\* the last index of s that holds a non-blank character; 0 when there is none
LastNonSpace(s) ==
    LET hits == {j \in 1..Len(s) : ~IsSpace(CharAt(s, j))}
    IN  IF hits = {} THEN 0
        ELSE CHOOSE j \in hits : \A k \in hits : j >= k

\* str.strip()
Strip(s) == SubSeq(s, NextAt(s, 1, FALSE), LastNonSpace(s))

\* str.split(): the maximal runs of non-blank characters, in order
RECURSIVE SplitFrom(_, _)
SplitFrom(s, i) ==
    LET first == NextAt(s, i, FALSE)
    IN  IF first > Len(s) THEN <<>>
        ELSE LET after == NextAt(s, first, TRUE)
             IN  <<SubSeq(s, first, after - 1)>> \o SplitFrom(s, after)

Split(s) == SplitFrom(s, 1)

-----------------------------------------------------------------------------
(* float arithmetic                                                        *)

\* A float x >= 0 is held exactly, as the natural number x * 2^FractionBits
\* written in base 2^LimbBits, least significant digit first and without
\* leading zeros (0.0 is <<>>).  Every value met here is a multiple of
\* 2^-FractionBits below 8.
LimbBits == 14
Base == 16384
FractionBits == 60
Mantissa == 53

\* F(v) with v evaluated once, before F: an argument or an assigned
\* variable of the code holds a value, not an expression
Eager(v, F(_)) == CHOOSE r \in {F(x) : x \in {v}} : TRUE

RECURSIVE Pow2(_)
Pow2(n) == IF n = 0 THEN 1 ELSE 2 * Pow2(n - 1)

Max(a, b) == IF a >= b THEN a ELSE b

Digit(a, i) == IF i <= Len(a) THEN a[i] ELSE 0

RECURSIVE Trim(_)
Trim(a) ==
    IF a # <<>> /\ a[Len(a)] = 0 THEN Trim(SubSeq(a, 1, Len(a) - 1)) ELSE a

\* digits from a sequence of naturals, the carries propagated
RECURSIVE Carry(_, _)
Carry(ds, c) ==
    IF ds = <<>>
    THEN (IF c = 0 THEN <<>> ELSE <<c % Base>> \o Carry(<<>>, c \div Base))
    ELSE <<(Head(ds) + c) % Base>> \o Carry(Tail(ds), (Head(ds) + c) \div Base)

FromInt(n) == Trim(Carry(<<n>>, 0))

ToInt(a) == Digit(a, 1) + Base * Digit(a, 2)

BigAdd(a, b) ==
    Trim(Carry([i \in 1..Max(Len(a), Len(b)) |-> Digit(a, i) + Digit(b, i)], 0))

RECURSIVE ConvSum(_, _, _, _)
ConvSum(a, b, k, i) ==
    IF i > k THEN 0
    ELSE Digit(a, i) * Digit(b, k + 1 - i) + ConvSum(a, b, k, i + 1)

BigMul(a, b) ==
    Trim(Carry([k \in 1..(Len(a) + Len(b)) |-> ConvSum(a, b, k, 1)], 0))

BigLess(a, b) ==
    \/ Len(a) < Len(b)
    \/ /\ Len(a) = Len(b)
       /\ \E i \in 1..Len(a) :
             a[i] < b[i] /\ \A j \in (i + 1)..Len(a) : a[j] = b[j]

RECURSIVE BitsOf(_)
BitsOf(n) == IF n = 0 THEN 0 ELSE 1 + BitsOf(n \div 2)

BitLength(a) ==
    IF a = <<>> THEN 0 ELSE LimbBits * (Len(a) - 1) + BitsOf(a[Len(a)])

\* a div 2^d
ShiftRight(a, d) ==
    LET q == d \div LimbBits
        r == d % LimbBits
    IN  Trim([i \in 1..Max(Len(a) - q, 0) |->
                (a[i + q] \div Pow2(r))
                + (Digit(a, i + q + 1) % Pow2(r)) * Pow2(LimbBits - r)])

\* a mod 2^d
LowBits(a, d) ==
    LET q == d \div LimbBits
        r == d % LimbBits
    IN  Trim([i \in 1..(q + 1) |->
                IF i <= q THEN Digit(a, i) ELSE Digit(a, i) % Pow2(r)])

\* a * 2^d
ShiftLeft(a, d) ==
    LET q == d \div LimbBits
        r == d % LimbBits
    IN  IF a = <<>> THEN <<>>
        ELSE [i \in 1..q |-> 0]
             \o Trim(Carry([i \in 1..Len(a) |-> a[i] * Pow2(r)], 0))

IsOdd(a) == a # <<>> /\ a[1] % 2 = 1

\* a / 2^d to the nearest natural, a half to the even one
RoundHalfEven(a, d) ==
    IF d = 0 THEN a
    ELSE Eager(ShiftRight(a, d), LAMBDA q :
         Eager(LowBits(a, d), LAMBDA rest :
         Eager(ShiftLeft(<<1>>, d - 1), LAMBDA half :
             IF BigLess(half, rest) \/ (rest = half /\ IsOdd(q))
             THEN BigAdd(q, <<1>>) ELSE q)))

\* the double nearest to a * 2^-bits (bits >= FractionBits), ties to even
RoundToDouble(a, bits) ==
    Eager(a, LAMBDA n :
        Eager(Max(BitLength(n) - Mantissa, bits - FractionBits), LAMBDA d :
            ShiftLeft(RoundHalfEven(n, d), d - (bits - FractionBits))))

\* x + y
FloatAdd(x, y) ==
    Eager(x, LAMBDA a : Eager(y, LAMBDA b :
        RoundToDouble(BigAdd(a, b), FractionBits)))

\* x * y
FloatMul(x, y) ==
    Eager(x, LAMBDA a : Eager(y, LAMBDA b :
        RoundToDouble(BigMul(a, b), 2 * FractionBits)))

\* x < y
FloatLess(x, y) == BigLess(x, y)

\* quotient and remainder of a by a natural k < 2^16, from the top digit
RECURSIVE DivSmall(_, _, _, _)
DivSmall(a, k, i, r) ==
    IF i = 0 THEN [q |-> <<>>, r |-> r]
    ELSE LET v == r * Base + a[i]
             low == DivSmall(a, k, i - 1, v % k)
         IN  [q |-> low.q \o <<v \div k>>, r |-> low.r]

\* the float a literal num/den denotes: the nearest double
Float(num, den) ==
    Eager(ShiftLeft(FromInt(num), FractionBits + LimbBits), LAMBDA scaled :
    Eager(DivSmall(scaled, den, Len(scaled), 0), LAMBDA d :
        RoundToDouble(BigAdd(ShiftLeft(Trim(d.q), 1),
                             IF d.r = 0 THEN <<>> ELSE <<1>>),
                      FractionBits + LimbBits + 1)))

\* the digits of f"{x:.2f}" as a natural: hundredths, ties to even
Hundredths(x) ==
    Eager(BigMul(x, FromInt(100)), LAMBDA n :
        ToInt(RoundHalfEven(n, FractionBits)))

-----------------------------------------------------------------------------
(* is_promotional_content                                                  *)

promo_indicators == <<
    "watch the video", "tutorial below", "link in bio", "dm me", "check out",
    "affiliate", "sponsored", "promotion", "advertisement", "buy now",
    "limited time", "special offer", "discount", "sale", "deal",
    "click here", "subscribe", "follow me", "my channel", "my course",
    "will change everything", "secret method", "exposed", "truth about",
    "nobody talks about", "revolutionary", "game changer" >>

url_patterns == << "youtube.com", "youtu.be", "bit.ly", "tinyurl.com", "goo.gl" >>

PromoThreshold == 2

\* text = f"{title} {content}".lower()
PromoText(t, c) == Lower(t \o " " \o Format(c))

\* mutant: every occurrence of an entry counts, not every entry
RECURSIVE CountOccurrences(_, _, _, _)
CountOccurrences(entries, text, i, score) ==
    IF i > Len(entries) THEN score
    ELSE CountOccurrences(entries, text, i + 1,
             score + Cardinality({j \in 0..(Len(text) - Len(entries[i])) :
                         SubSeq(text, j + 1, j + Len(entries[i])) = entries[i]}))

\* for entry in entries: if entry in text: score += 1
RECURSIVE CountLoop(_, _, _, _)
CountLoop(entries, text, i, score) ==
    IF i > Len(entries) THEN score
    ELSE CountLoop(entries, text, i + 1,
                   IF Contains(entries[i], text) THEN score + 1 ELSE score)

promo_score(t, c) ==
    LET text == PromoText(t, c)
    IN  CountLoop(url_patterns, text, 1, CountLoop(promo_indicators, text, 1, 0))

is_promotional_content(t, c) == promo_score(t, c) >= PromoThreshold

-----------------------------------------------------------------------------
(* Text inputs: phrases of a small vocabulary joined by single spaces      *)

RECURSIVE JoinWords(_)
JoinWords(ws) ==
    IF ws = <<>> THEN ""
    ELSE IF Len(ws) = 1 THEN ws[1]
    ELSE ws[1] \o " " \o JoinWords(Tail(ws))

SeqsUpTo(S, n) == UNION {[1..k -> S] : k \in 0..n}

Texts(S, n) == {JoinWords(ws) : ws \in SeqsUpTo(S, n)}

\* bound on the number of vocabulary phrases in title and body together
MaxPromoUnits == 2

\* the (title, body) pairs made of at most n phrases of S; the body may be None
TextPairs(S, n) ==
    {<<tb[1], Some(tb[2])>> : tb \in
        UNION {Texts(S, k) \X Texts(S, n - k) : k \in 0..n}}
    \cup {<<t, None>> : t \in Texts(S, n)}

PromoVocab == {"buy", "now", "now click here", "Wholesale"}

AddedPhrases == {"click here", "bit.ly"}

Places == {"title_start", "title_end", "body_start", "body_end"}

\* the text with one more indicator phrase put at one of its four ends
AddTo(s, phrase, atEnd) ==
    IF s = "" THEN phrase
    ELSE IF atEnd THEN s \o " " \o phrase ELSE phrase \o " " \o s

PromoOut(t, c) ==
    LET n == promo_score(t, c)
    IN  [score |-> n, promotional |-> n >= PromoThreshold]

InitPromo ==
    /\ pc = "promo_start"
    /\ \E tb \in TextPairs(PromoVocab, MaxPromoUnits) :
          title = tb[1] /\ content = tb[2]
    /\ keyword = ""
    /\ out = None
    /\ prev = None
    /\ submission = NoSubmission
    /\ max_comments = 0
    /\ SearchIdle

CheckPromotional ==
    /\ pc = "promo_start"
    /\ out' = PromoOut(title, content)
    /\ pc' = "promo_checked"
    /\ UNCHANGED <<title, content, keyword, prev, classifierVars, searchVars>>

\* the caller's text gets one more indicator phrase and is checked again
AddPhrase ==
    /\ pc = "promo_checked"
    /\ \E phrase \in AddedPhrases, place \in Places :
          /\ title' = CASE place = "title_start" -> AddTo(title, phrase, FALSE)
                        [] place = "title_end" -> AddTo(title, phrase, TRUE)
                        [] OTHER -> title
          /\ content' = CASE place = "body_start" -> Some(AddTo(content.v, phrase, FALSE))
                          [] place = "body_end" -> Some(AddTo(content.v, phrase, TRUE))
                          [] OTHER -> content
          /\ prev' = [score |-> out.score, promotional |-> out.promotional,
                       place |-> place, phrase |-> phrase]
    /\ out' = PromoOut(title', content')
    /\ pc' = "promo_added"
    /\ UNCHANGED <<keyword, classifierVars, searchVars>>

NextPromo == CheckPromotional \/ AddPhrase

SpecPromo == InitPromo /\ [][NextPromo]_vars

\* C6 (as stated): is_promotional_content is true iff at least two distinct
\* lexicon entries occur in the lowercased "title body" text, and adding an
\* indicator phrase to the title or the body never lowers the count nor
\* turns a true result into false.
PromoLexicon == Range(promo_indicators) \cup Range(url_patterns)

DistinctMatches(t, c) ==
    Cardinality({e \in PromoLexicon : Contains(e, Lower(t \o " " \o Format(c)))})

PromoIffTwoDistinct ==
    pc \in {"promo_checked", "promo_added"} =>
        LET n == DistinctMatches(title, content)
        IN  out.score = n /\ out.promotional = (n >= 2)

PromoNeverDecreases ==
    pc = "promo_added" =>
        /\ out.score >= prev.score
        /\ prev.promotional => out.promotional

C6_PromoMonotoneAnywhere == PromoIffTwoDistinct /\ PromoNeverDecreases

\* C6 (amended): the same, with the phrase added at either end of the
\* combined text (before the title or after the body); a phrase added
\* between title and body can break a match that spans both.
C6_PromoCountAndMonotoneAtEnds ==
    /\ PromoIffTwoDistinct
    /\ (pc = "promo_added" /\ prev.place \in {"title_start", "body_end"})
           => /\ out.score >= prev.score
              /\ prev.promotional => out.promotional

\* a promotional text, one of its matches spanning title and body, extended
\* at its end by a phrase it did not hold yet
C6_Witness ==
    /\ pc = "promo_added"
    /\ prev.place = "body_end"
    /\ prev.phrase = "bit.ly"
    /\ prev.promotional
    /\ prev.score = 2
    /\ out.score = 3
    /\ title = "buy"
    /\ content = Some("now click here bit.ly")

-----------------------------------------------------------------------------
(* calculate_enhanced_relevance_score (scores are floats)                  *)

seo_related == <<
    "search engine optimization", "digital marketing", "google ranking",
    "website traffic", "keyword research", "backlinks", "optimization",
    "ranking", "search engine", "google", "marketing", "traffic",
    "organic", "serp", "meta", "analytics" >>

course_related == <<
    "tutorial", "learn", "training", "education", "class", "lesson",
    "certification", "certificate", "program", "bootcamp", "academy",
    "instructor", "teacher", "beginner", "advanced", "online learning" >>

question_contexts == <<
    "best course", "recommend course", "good course", "which course",
    "course recommendation", "learning", "study", "beginner",
    "start with", "where to learn", "how to learn" >>

InitialScore == Float(0, 1)
TitleWeight == Float(5, 10)
TitleWordWeight == Float(2, 10)
ContentWeight == Float(3, 10)
TermWeight == Float(15, 100)
ContextWeight == Float(2, 10)
PenaltyFactor == Float(3, 10)
MaxScore == Float(1, 1)

\* for term in terms: if term in text: score += weight
RECURSIVE AddLoop(_, _, _, _, _)
AddLoop(terms, text, i, score, weight) ==
    Eager(score, LAMBDA s :
        IF i > Len(terms) THEN s
        ELSE AddLoop(terms, text, i + 1,
                     IF Contains(terms[i], text) THEN FloatAdd(s, weight)
                     ELSE s,
                     weight))

\* mutant: the loop without its break, one bonus per matching context
EveryMatchLoop(contexts, text, i, score, weight) ==
    AddLoop(contexts, text, i, score, weight)

\* for context in contexts: if context in text: score += weight; break
RECURSIVE FirstMatchLoop(_, _, _, _, _)
FirstMatchLoop(contexts, text, i, score, weight) ==
    Eager(score, LAMBDA s :
        IF i > Len(contexts) THEN s
        ELSE IF Contains(contexts[i], text) THEN FloatAdd(s, weight)
        ELSE FirstMatchLoop(contexts, text, i + 1, s, weight))

\* any(keyword_lower in word or word in keyword_lower for word in title_words)
AnyWordShares(keyword_lower, title_words) ==
    \E i \in 1..Len(title_words) :
        \/ Contains(keyword_lower, title_words[i])
        \/ Contains(title_words[i], keyword_lower)

\* score *= 0.3
Penalise(score) == FloatMul(score, PenaltyFactor)

\* mutant: the score returned as it is
Unclamped(score) == score

\* min(score, 1.0)
ClampScore(score) ==
    Eager(score, LAMBDA s : IF FloatLess(MaxScore, s) THEN MaxScore ELSE s)

calculate_enhanced_relevance_score(t, c, k) ==
    LET keyword_lower == Lower(k)
        title_lower == Lower(t)
        content_lower == IF Truthy(c) THEN Lower(c.v) ELSE ""
        full_text == title_lower \o " " \o content_lower
        s0 == IF Contains(keyword_lower, title_lower)
              THEN FloatAdd(InitialScore, TitleWeight) ELSE InitialScore
        s1 == IF Contains(keyword_lower, title_lower)
                 /\ AnyWordShares(keyword_lower, Split(title_lower))
              THEN FloatAdd(s0, TitleWordWeight) ELSE s0
        s2 == IF Contains(keyword_lower, content_lower)
              THEN FloatAdd(s1, ContentWeight) ELSE s1
        s3 == IF Contains("seo", keyword_lower)
              THEN AddLoop(seo_related, full_text, 1, s2, TermWeight) ELSE s2
        s4 == IF Contains("course", keyword_lower)
              THEN AddLoop(course_related, full_text, 1, s3, TermWeight) ELSE s3
        s5 == FirstMatchLoop(question_contexts, full_text, 1, s4, ContextWeight)
        s6 == IF is_promotional_content(t, c) THEN Penalise(s5) ELSE s5
    IN  ClampScore(s6)

\* bound on the number of vocabulary phrases in title and body together
MaxScoreUnits == 2

ScoreVocab == {"Best SEO course for a beginner?", "google ranking tutorial",
               "beginner learning", "buy now click here", "xseo coursey",
               "google marketing traffic"}

Keywords == {"seo course", "SEO", "Course", "python"}

InitScore ==
    /\ pc = "score_start"
    /\ \E tb \in TextPairs(ScoreVocab, MaxScoreUnits) :
          title = tb[1] /\ content = tb[2]
    /\ keyword \in Keywords
    /\ out = None
    /\ prev = None
    /\ submission = NoSubmission
    /\ max_comments = 0
    /\ SearchIdle

ScoreRelevance ==
    /\ pc = "score_start"
    /\ out' = calculate_enhanced_relevance_score(title, content, keyword)
    /\ pc' = "score_done"
    /\ UNCHANGED <<title, content, keyword, prev, classifierVars, searchVars>>

NextScore == ScoreRelevance

SpecScore == InitScore /\ [][NextScore]_vars

\* the additive sum of the reference formula, before penalty and clamp
RefBody == IF content.some THEN Lower(content.v) ELSE ""

RefText == Lower(title) \o " " \o RefBody

RefMatches(terms) == Cardinality({i \in DOMAIN terms : Contains(terms[i], RefText)})

RefSum ==
    LET kw == Lower(keyword)
        inTitle == Contains(kw, Lower(title))
        shares == \E w \in Range(Split(Lower(title))) :
                      Contains(kw, w) \/ Contains(w, kw)
    IN  (IF inTitle THEN 500 ELSE 0)
        + (IF inTitle /\ shares THEN 200 ELSE 0)
        + (IF Contains(kw, RefBody) THEN 300 ELSE 0)
        + (IF Contains("seo", kw) THEN 150 * RefMatches(seo_related) ELSE 0)
        + (IF Contains("course", kw) THEN 150 * RefMatches(course_related) ELSE 0)
        + (IF RefMatches(question_contexts) >= 1 THEN 200 ELSE 0)

\* C4: the relevance score lies in [0, 1] for every title, body (empty and
\* None included) and keyword, whatever the number of lexicon matches and
\* whether or not the promotional penalty applies.
C4_ScoreInUnitInterval ==
    pc = "score_done" =>
        (~FloatLess(out, Float(0, 1)) /\ ~FloatLess(Float(1, 1), out))

\* an additive sum above 1.0, without penalty, returned as exactly 1.0
C4_Witness ==
    /\ pc = "score_done"
    /\ RefSum > 1000
    /\ ~is_promotional_content(title, content)
    /\ out = Float(1, 1)

\* min(1.0, p * S) in thousandths, computed on the decimal numbers
RefScore ==
    Min(1000, IF is_promotional_content(title, content)
              THEN (3 * RefSum) \div 10 ELSE RefSum)

\* |x - th/1000| <= 2^-50
WithinRounding(x, th) ==
    LET a == BigMul(x, FromInt(1000))
        b == ShiftLeft(FromInt(th), FractionBits)
        slack == ShiftLeft(FromInt(1000), FractionBits - 50)
    IN  ~BigLess(BigAdd(a, slack), b) /\ ~BigLess(BigAdd(b, slack), a)

\* the float of a natural number
FloatOfInt(n) == ShiftLeft(FromInt(n), FractionBits)

\* min(1.0, p * S) evaluated in floats as the formula is written, a bracket
\* being 1 or 0 and a count an integer
RefFloatScore ==
    LET kw == Lower(keyword)
        inTitle == Contains(kw, Lower(title))
        shares == \E w \in Range(Split(Lower(title))) :
                      Contains(kw, w) \/ Contains(w, kw)
        Bracket(b) == FloatOfInt(IF b THEN 1 ELSE 0)
        Count(word, terms) ==
            FloatOfInt(IF Contains(word, kw) THEN RefMatches(terms) ELSE 0)
        t1 == FloatMul(TitleWeight, Bracket(inTitle))
        t2 == FloatMul(TitleWordWeight, Bracket(inTitle /\ shares))
        t3 == FloatMul(ContentWeight, Bracket(Contains(kw, RefBody)))
        t4 == FloatMul(TermWeight, Count("seo", seo_related))
        t5 == FloatMul(TermWeight, Count("course", course_related))
        t6 == FloatMul(ContextWeight, Bracket(RefMatches(question_contexts) >= 1))
        S == FloatAdd(FloatAdd(FloatAdd(FloatAdd(FloatAdd(t1, t2), t3), t4), t5), t6)
        pS == IF is_promotional_content(title, content)
              THEN FloatMul(PenaltyFactor, S) ELSE S
    IN  IF FloatLess(MaxScore, pS) THEN MaxScore ELSE pS

\* C5 as stated: the score is min(1.0, p * S), either the float nearest to
\* this number or the float the formula gives when evaluated as written
C5_ScoreEqualsReference ==
    pc = "score_done" => (out = Float(RefScore, 1000) \/ out = RefFloatScore)

\* C5: the score equals min(1.0, p * S) up to the rounding of the float
\* additions, for the reference sum S, with p = 0.3 when
\* is_promotional_content(title, body) and 1 otherwise: the penalty
\* multiplies the whole sum, last, and the context bonus is added at most
\* once.
C5_ScoreNearReference ==
    pc = "score_done" => WithinRounding(out, RefScore)

\* a promotional text with an additive sum of 1.05 (two contexts match, one
\* bonus is added): 0.3 * 1.05 = 0.315, not 0.3 * min(1, 1.05)
C5_Witness ==
    /\ pc = "score_done"
    /\ title = "Best SEO course for a beginner?"
    /\ content = Some("buy now click here")
    /\ keyword = "seo course"
    /\ RefMatches(question_contexts) >= 1
    /\ RefSum = 1050
    /\ WithinRounding(out, 315)
    /\ Hundredths(out) = 32

-----------------------------------------------------------------------------
(* is_meaningful_comment                                                   *)

low_quality == <<
    "thanks", "thank you", "thx", "+1", "same", "this", "agreed",
    "yes", "no", "upvoted", "bump", "following", "interested",
    "me too", "same here", "lol", "nice", "cool", "good luck" >>

meaningful_indicators == <<
    "recommend", "suggest", "try", "use", "check out", "experience",
    "worked for me", "helped me", "solution", "answer", "result" >>

MinCommentLength == 15
MinCommentWords == 5
LongCommentWords == 20

\* x in list
InList(x, list) == \E i \in 1..Len(list) : list[i] = x

\* any(indicator in text for indicator in indicators)
AnyIn(indicators, text) == \E i \in 1..Len(indicators) : Contains(indicators[i], text)

\* mutant: a long comment needs more than 20 words
is_meaningful_comment_strict(comment_body) ==
    IF ~Truthy(comment_body) \/ Len(Strip(comment_body.v)) < MinCommentLength
    THEN FALSE
    ELSE LET comment_lower == Strip(Lower(comment_body.v))
             word_count == Len(Split(comment_body.v))
         IN  /\ ~InList(comment_lower, low_quality)
             /\ word_count >= MinCommentWords
             /\ (AnyIn(meaningful_indicators, comment_lower)
                    \/ word_count > LongCommentWords)

is_meaningful_comment(comment_body) ==
    IF ~Truthy(comment_body) \/ Len(Strip(comment_body.v)) < MinCommentLength
    THEN FALSE
    ELSE LET comment_lower == Strip(Lower(comment_body.v))
         IN  IF InList(comment_lower, low_quality)
             THEN FALSE
             ELSE LET word_count == Len(Split(comment_body.v))
                      has_meaningful_content ==
                          AnyIn(meaningful_indicators, comment_lower)
                  IN  word_count >= MinCommentWords
                      /\ (has_meaningful_content \/ word_count >= LongCommentWords)

\* bound on the number of filler words of a comment body
MaxFillerWords == 20

Fillers == {"a", "word", "because"}

Tails == {"", "Thanks", "thank you", "RECOMMEND it", "it really worked for me", "ok"}

Pads == {"", "  ", "\n", ""}

\* n filler words then the tail, separated by single spaces, inside padding
CommentBody(pad, n, filler, tail) ==
    pad \o JoinWords([i \in 1..n |-> filler] \o (IF tail = "" THEN <<>> ELSE <<tail>>))
        \o pad

InitComment ==
    /\ pc = "comment_start"
    /\ title = ""
    /\ content \in {None} \cup
          {Some(CommentBody(pad, n, filler, tail)) :
              pad \in Pads, n \in 0..MaxFillerWords, filler \in Fillers, tail \in Tails}
    /\ keyword = ""
    /\ out = None
    /\ prev = None
    /\ submission = NoSubmission
    /\ max_comments = 0
    /\ SearchIdle

JudgeComment ==
    /\ pc = "comment_start"
    /\ out' = is_meaningful_comment(content)
    /\ pc' = "comment_done"
    /\ UNCHANGED <<title, content, keyword, prev, classifierVars, searchVars>>

NextComment == JudgeComment

SpecComment == InitComment /\ [][NextComment]_vars

\* the body as the claim reads it: trimmed text, number of words (a word
\* starts at a non-blank character that follows a blank or nothing)
RefTrimmed == Strip(content.v)

RefWordCount ==
    Cardinality({i \in 1..Len(content.v) :
        /\ ~IsSpace(CharAt(content.v, i))
        /\ (i = 1 \/ IsSpace(CharAt(content.v, i - 1)))})

RefLowQuality == Lower(RefTrimmed) \in Range(low_quality)

RefHasIndicator ==
    \E e \in Range(meaningful_indicators) : Contains(e, Lower(content.v))

\* C7: is_meaningful_comment is false for an empty or blank body, a trimmed
\* length below 15, a trimmed lowercase body equal to a low-quality phrase,
\* or fewer than 5 words; otherwise it is true iff the body has at least 20
\* words, or at least 5 words and a meaningful-indicator phrase.
C7_MeaningfulComment ==
    pc = "comment_done" =>
        out = IF \/ ~content.some
                 \/ RefTrimmed = ""
                 \/ Len(RefTrimmed) < 15
                 \/ RefLowQuality
                 \/ RefWordCount < 5
              THEN FALSE
              ELSE \/ RefWordCount >= 20
                   \/ (RefWordCount >= 5 /\ RefHasIndicator)

\* a 19-word comment of more than 15 characters without any indicator
C7_Witness ==
    /\ pc = "comment_done"
    /\ content.some
    /\ RefWordCount = 19
    /\ ~RefHasIndicator
    /\ Len(RefTrimmed) >= 15
    /\ out = FALSE

-----------------------------------------------------------------------------
(* is_unanswered_enhanced                                                  *)

\* The comments a post can carry.  "broken" stands for a comment whose body
\* cannot be evaluated (reading or lowercasing it raises).
CommentCatalog ==
    [ helpful |-> [broken |-> FALSE,
                   body |-> Some("I recommend you try the free Moz course")],
      thanks  |-> [broken |-> FALSE, body |-> Some("thanks")],
      removed |-> [broken |-> FALSE,
                   body |-> Some("[Removed] I recommend you try the free Moz course")],
      broken  |-> [broken |-> TRUE, body |-> None] ]

CommentKinds == DOMAIN CommentCatalog

\* comment.body.lower().startswith(('[deleted]', '[removed]'))
IsDeleted(body) ==
    StartsWith(Lower(body), "[deleted]") \/ StartsWith(Lower(body), "[removed]")

\* the three nested conditions under which the loop counts a comment
CountsAsAnswer(c) ==
    /\ Truthy(c.body)
    /\ ~IsDeleted(c.body.v)
    /\ is_meaningful_comment(c.body)

counts_as_answer == [k \in CommentKinds |-> CountsAsAnswer(CommentCatalog[k])]

Returned(value, fetched, failure) ==
    [raised |-> FALSE, value |-> value, fetched |-> fetched, failure |-> failure]

Raised(fetched) ==
    [raised |-> TRUE, value |-> FALSE, fetched |-> fetched, failure |-> "outer"]

\* mutant: answered as soon as max_comments // 2 comments are meaningful
RECURSIVE CommentLoopAtLeast(_, _, _, _, _)
CommentLoopAtLeast(comments, i, last, meaningful_comments, limit) ==
    IF i > last THEN "unanswered"
    ELSE IF CommentCatalog[comments[i]].broken THEN "failed"
    ELSE IF counts_as_answer[comments[i]]
         THEN IF meaningful_comments + 1 >= limit
              THEN "answered"
              ELSE CommentLoopAtLeast(comments, i + 1, last,
                                      meaningful_comments + 1, limit)
         ELSE CommentLoopAtLeast(comments, i + 1, last, meaningful_comments, limit)

\* for comment in submission.comments[:max_comments + 2]: ...
\* "answered" is the early return False, "unanswered" the return True after
\* the loop, "failed" an exception raised by a comment
RECURSIVE CommentLoop(_, _, _, _, _)
CommentLoop(comments, i, last, meaningful_comments, limit) ==
    IF i > last THEN "unanswered"
    ELSE IF CommentCatalog[comments[i]].broken THEN "failed"
    ELSE IF counts_as_answer[comments[i]]
         THEN IF meaningful_comments + 1 > limit
              THEN "answered"
              ELSE CommentLoop(comments, i + 1, last, meaningful_comments + 1, limit)
         ELSE CommentLoop(comments, i + 1, last, meaningful_comments, limit)

\* mutant: the inner handler answers "answered"
InnerHandlerFalse == FALSE

\* the value of the inner handler: except: return True
InnerHandlerValue == TRUE

\* the inner try block
CheckComments(sub, maxc) ==
    IF sub.fault = "fetch"
    THEN Returned(InnerHandlerValue, TRUE, "inner")
    ELSE LET end == CommentLoop(sub.comments, 1, Min(Len(sub.comments), maxc + 2),
                                0, maxc \div 2)
         IN  CASE end = "answered" -> Returned(FALSE, TRUE, "none")
               [] end = "unanswered" -> Returned(TRUE, TRUE, "none")
               [] OTHER -> Returned(InnerHandlerValue, TRUE, "inner")

\* the outer handler: except: return submission.num_comments <= max_comments
OuterHandler(sub, maxc, fetched) ==
    IF sub.fault = "read_always" \/ ~sub.num_comments.some
    THEN Raised(fetched)
    ELSE Returned(sub.num_comments.v <= maxc, fetched, "outer")

is_unanswered_enhanced(sub, maxc) ==
    LET n == sub.num_comments
    IN  IF sub.fault \in {"read_once", "read_always"}
        THEN OuterHandler(sub, maxc, FALSE)
        ELSE IF n.some /\ n.v = 0 THEN Returned(TRUE, FALSE, "none")
        ELSE IF ~n.some THEN OuterHandler(sub, maxc, FALSE)
        ELSE IF n.v > maxc * 2 THEN Returned(FALSE, FALSE, "none")
        ELSE IF n.v <= maxc THEN CheckComments(sub, maxc)
        ELSE Returned(FALSE, FALSE, "none")

\* bounds of the classifier's inputs
MaxTopLevel == 4
MaxThreshold == 2
DefaultMaxComments == 5

Thresholds == 0..MaxThreshold \cup {DefaultMaxComments}

CommentCounts ==
    0..(2 * MaxThreshold + 1) \cup {2 * DefaultMaxComments, 2 * DefaultMaxComments + 1}

Faults == {"none", "fetch", "read_once", "read_always"}

InitUnanswered ==
    /\ pc = "unanswered_start"
    /\ title = ""
    /\ content = None
    /\ keyword = ""
    /\ out = None
    /\ prev = None
    /\ submission \in
          [num_comments : {NoneInt} \cup {[some |-> TRUE, v |-> n] : n \in CommentCounts},
           fault : Faults,
           comments : SeqsUpTo(CommentKinds, MaxTopLevel)]
    /\ max_comments \in Thresholds
    /\ SearchIdle

ClassifyUnanswered ==
    /\ pc = "unanswered_start"
    /\ out' = is_unanswered_enhanced(submission, max_comments)
    /\ pc' = "unanswered_done"
    /\ UNCHANGED <<title, content, keyword, prev, classifierVars, searchVars>>

NextUnanswered == ClassifyUnanswered

SpecUnanswered == InitUnanswered /\ [][NextUnanswered]_vars

\* the comments the claim counts: among the first max_comments + 2, those
\* that are not deleted/removed and are meaningful
RefAnswers(k) ==
    LET body == CommentCatalog[k].body
    IN  /\ body.some
        /\ ~StartsWith(Lower(body.v), "[deleted]")
        /\ ~StartsWith(Lower(body.v), "[removed]")
        /\ is_meaningful_comment(body)

ref_answers == [k \in CommentKinds |-> RefAnswers(k)]

RefMeaningful ==
    Cardinality({i \in 1..Len(submission.comments) :
                    i <= max_comments + 2 /\ ref_answers[submission.comments[i]]})

\* C1: without a failure, is_unanswered_enhanced follows the decision
\* table (0 comments: true; above 2*max: false; between max and 2*max:
\* false; otherwise false iff more than max // 2 of the first max + 2
\* comments are live and meaningful), and the comment tree is read only in
\* the last row.
C1_DecisionTable ==
    (pc = "unanswered_done" /\ out.failure = "none") =>
        LET n == submission.num_comments.v
        IN  /\ ~out.raised
            /\ n = 0 => (out.value /\ ~out.fetched)
            /\ n > 2 * max_comments => (~out.value /\ ~out.fetched)
            /\ (max_comments < n /\ n <= 2 * max_comments)
                   => (~out.value /\ ~out.fetched)
            /\ (0 < n /\ n <= max_comments)
                   => /\ out.value = ~(RefMeaningful > max_comments \div 2)
                      /\ out.fetched

\* the spec's own example: max_comments = 5, two comments, one meaningful
C1_Witness ==
    /\ pc = "unanswered_done"
    /\ max_comments = 5
    /\ submission.num_comments = [some |-> TRUE, v |-> 2]
    /\ submission.comments = <<"thanks", "helpful">>
    /\ submission.fault = "none"
    /\ out.failure = "none"
    /\ out.fetched
    /\ out.value

\* C2: with 0 < comment_count <= max_comments, any failure raised while
\* the comments are expanded, fetched or evaluated yields true, whatever
\* had been counted before, and nothing is raised to the caller.
C2_FailOpen ==
    (pc = "unanswered_done" /\ out.failure = "inner") =>
        /\ 0 < submission.num_comments.v
        /\ submission.num_comments.v <= max_comments
        /\ out.value
        /\ ~out.raised

\* a failure on the third comment, after one meaningful comment was counted
C2_Witness ==
    /\ pc = "unanswered_done"
    /\ max_comments = 2
    /\ submission.num_comments = [some |-> TRUE, v |-> 2]
    /\ submission.comments = <<"helpful", "thanks", "broken">>
    /\ out.failure = "inner"
    /\ out.value

\* C3: a failure outside the comment-fetch block degrades to the threshold
\* check: the function returns (comment_count <= max_comments) and does not
\* raise.
C3_OuterFailureDegrades ==
    (pc = "unanswered_done" /\ out.failure = "outer") =>
        /\ ~out.raised
        /\ out.value = (submission.num_comments.some
                        /\ submission.num_comments.v <= max_comments)

-----------------------------------------------------------------------------
(* is_genuine_question                                                     *)

question_words == <<"?", "how", "what", "why", "which", "where", "when", "who">>

help_words == <<"help", "advice", "recommend", "suggest", "opinion", "thoughts">>

seeking_words == <<"looking for", "need", "want", "seeking", "trying to find">>

is_genuine_question(t, c) ==
    LET text == Lower(t \o " " \o Format(c))
        has_question_word == AnyIn(question_words, text)
        has_help_word == AnyIn(help_words, text)
        has_seeking_word == AnyIn(seeking_words, text)
    IN  has_question_word \/ has_help_word \/ has_seeking_word

-----------------------------------------------------------------------------
(* search_unanswered_questions_enhanced                                    *)

SomeInt(n) == [some |-> TRUE, v |-> n]

\* The posts the API client can return.  "a2" is post "a" as returned by a
\* later query (same id, two comments by then, its comment tree failing to
\* load); "x" carries no comment count.  Posts "a" and "n" were created 40
\* minutes apart, on either side of the end of daylight saving time in 2025.
Posts ==
    [ a  |-> [id |-> "a", title |-> "Best SEO course for a beginner?",
              selftext |-> Some(""), score |-> 3, num_comments |-> SomeInt(0),
              fault |-> "none", comments |-> <<>>,
              author |-> Some("ann"), created_utc |-> 1762061400],
      a2 |-> [id |-> "a", title |-> "Best SEO course for a beginner?",
              selftext |-> Some(""), score |-> 4, num_comments |-> SomeInt(2),
              fault |-> "fetch", comments |-> <<"thanks", "helpful">>,
              author |-> Some("ann"), created_utc |-> 1762061400],
      g  |-> [id |-> "g", title |-> "Which SEO course should I start with?",
              selftext |-> Some("I am looking for advice."), score |-> 1,
              num_comments |-> SomeInt(2), fault |-> "none",
              comments |-> <<"thanks", "helpful">>,
              author |-> None, created_utc |-> 1762070000],
      p  |-> [id |-> "p", title |-> "SEO course discount sale?",
              selftext |-> Some("seo course tutorial"), score |-> 9,
              num_comments |-> SomeInt(0), fault |-> "none", comments |-> <<>>,
              author |-> Some("shop"), created_utc |-> 1750000000],
      n  |-> [id |-> "n", title |-> "My SEO course notes",
              selftext |-> Some("Finished the SEO course last month, sharing my notes."),
              score |-> 2, num_comments |-> SomeInt(0), fault |-> "none",
              comments |-> <<>>, author |-> Some("ned"), created_utc |-> 1762063800],
      i  |-> [id |-> "i", title |-> "How do I cook rice?",
              selftext |-> Some(""), score |-> 5, num_comments |-> SomeInt(0),
              fault |-> "none", comments |-> <<>>,
              author |-> Some("ivy"), created_utc |-> 1740000000],
      w  |-> [id |-> "w", title |-> "Best SEO course?",
              selftext |-> Some(""), score |-> 7, num_comments |-> SomeInt(3),
              fault |-> "none", comments |-> <<"helpful", "helpful", "helpful">>,
              author |-> Some("wes"), created_utc |-> 1741503000],
      x  |-> [id |-> "x", title |-> "Good SEO course?",
              selftext |-> Some(""), score |-> 1, num_comments |-> NoneInt,
              fault |-> "none", comments |-> <<>>,
              author |-> Some("xan"), created_utc |-> 1741504000],
      l  |-> [id |-> "l", title |-> "Which SEO course?",
              selftext |-> Some(""), score |-> 0 - 1, num_comments |-> SomeInt(0),
              fault |-> "none", comments |-> <<>>,
              author |-> Some("lou"), created_utc |-> 1735689600],
      s  |-> [id |-> "s", title |-> "SEO course basics",
              selftext |-> Some("too short"), score |-> 1, num_comments |-> SomeInt(0),
              fault |-> "none", comments |-> <<>>,
              author |-> Some("sam"), created_utc |-> 1767225599] ]

PostNames == DOMAIN Posts

\* what is_unanswered_enhanced reads of a post
SubmissionOf(post) ==
    [num_comments |-> post.num_comments, fault |-> post.fault,
     comments |-> post.comments]

SearchKeywords == {"seo course"}
DefaultMinScore == 0
DefaultRelevanceThreshold == Float(3, 10)
HighRelevanceThreshold == Float(9, 10)
RelevanceThresholds == {DefaultRelevanceThreshold, HighRelevanceThreshold}
DefaultMinContentLength == 50
SearchTermCount == 2
ResultsPerLimit == 3
MaxContent == 400
SecondsPerMinute == 60
SecondsPerHour == 3600
SecondsPerDay == 86400

\* Time zones: the offsets from UTC, in seconds, and the part of 2025 (the
\* year of the posts) in which daylight saving time is in force
UTC == [std |-> 0, dst |-> 0, dst_from |-> 0, dst_until |-> 0]

Eastern == [std |-> 0 - 18000, dst |-> 0 - 14400,
            dst_from |-> 1741503600, dst_until |-> 1762063200]

TimeZones == {UTC, Eastern}

UtcOffset(zone, t) ==
    IF zone.dst_from <= t /\ t < zone.dst_until THEN zone.dst ELSE zone.std

\* the civil date of a day counted from 1970-01-01
CivilFromDays(days) ==
    LET z == days + 719468
        era == z \div 146097
        doe == z - era * 146097
        yoe == (doe - doe \div 1460 + doe \div 36524 - doe \div 146096) \div 365
        doy == doe - (365 * yoe + yoe \div 4 - yoe \div 100)
        mp == (5 * doy + 2) \div 153
        m == IF mp < 10 THEN mp + 3 ELSE mp - 9
    IN  [year |-> yoe + era * 400 + (IF m <= 2 THEN 1 ELSE 0),
         month |-> m,
         day |-> doy - (153 * mp + 2) \div 5 + 1]

\* datetime.fromtimestamp(created_utc): the local date and time
fromtimestamp(zone, t) ==
    LET local == t + UtcOffset(zone, t)
        date == CivilFromDays(local \div SecondsPerDay)
        second == local % SecondsPerDay
    IN  [year |-> date.year, month |-> date.month, day |-> date.day,
         hour |-> second \div SecondsPerHour,
         minute |-> (second % SecondsPerHour) \div SecondsPerMinute]

DigitChar(d) == SubSeq("0123456789", d + 1, d + 1)

\* n written with at least width digits
RECURSIVE ZeroPad(_, _)
ZeroPad(n, width) ==
    IF n < 10 /\ width <= 1 THEN DigitChar(n)
    ELSE ZeroPad(n \div 10, width - 1) \o DigitChar(n % 10)

\* strftime('%Y-%m-%d %H:%M')
strftime(dt) ==
    ZeroPad(dt.year, 4) \o "-" \o ZeroPad(dt.month, 2) \o "-" \o ZeroPad(dt.day, 2)
    \o " " \o ZeroPad(dt.hour, 2) \o ":" \o ZeroPad(dt.minute, 2)

\* search(search_term, sort="new", time_filter=time_filter, limit=limit*3)
Query(search_term, limit) == [search_term |-> search_term, limit |-> limit]

\* search_terms
search_terms(k) == <<k, k \o " help", k \o " advice", k \o " recommend">>

\* the verdicts of the four filters on the catalogue's posts
promotional_of ==
    [p \in PostNames |-> is_promotional_content(Posts[p].title, Posts[p].selftext)]

question_of ==
    [p \in PostNames |-> is_genuine_question(Posts[p].title, Posts[p].selftext)]

relevance_of ==
    [k \in SearchKeywords |-> [p \in PostNames |->
        calculate_enhanced_relevance_score(Posts[p].title, Posts[p].selftext, k)]]

unanswered_of ==
    [m \in {DefaultMaxComments} |-> [p \in PostNames |->
        is_unanswered_enhanced(SubmissionOf(Posts[p]), m)]]

\* f"{relevance:.2f}": the float written with two decimals, the nearest
\* hundredth of its exact value
TwoDecimals(relevance) ==
    Eager(Hundredths(relevance), LAMBDA h :
        ZeroPad(h \div 100, 1) \o "." \o ZeroPad(h % 100, 2))

\* the value of a string of decimal digits
RECURSIVE DigitsValue(_)
DigitsValue(text) ==
    IF text = "" THEN 0
    ELSE 10 * DigitsValue(SubSeq(text, 1, Len(text) - 1))
         + (CHOOSE d \in 0..9 : DigitChar(d) = SubSeq(text, Len(text), Len(text)))

\* float(x['Relevance']) of a string with two decimals
ParseFloat(text) ==
    Float(DigitsValue(SubSeq(text, 1, Len(text) - 3)
                      \o SubSeq(text, Len(text) - 1, Len(text))), 100)

\* submission.selftext[:400] + "..." if len(submission.selftext) > 400
Truncated(text) ==
    IF Len(text) > MaxContent THEN SubSeq(text, 1, MaxContent) \o "..." ELSE text

\* the row appended to questions
RowOf(post, relevance, zone) ==
    [Title |-> post.title,
     Author |-> IF Truthy(post.author) THEN post.author.v ELSE "[deleted]",
     Score |-> post.score,
     Comments |-> post.num_comments.v,
     Created |-> strftime(fromtimestamp(zone, post.created_utc)),
     Content |-> Truncated(post.selftext.v),
     Relevance |-> TwoDecimals(relevance),
     Content_Length |-> IF Truthy(post.selftext) THEN Len(post.selftext.v) ELSE 0]

\* the row of each post, per time zone and keyword, given the scores
RowTable(relevance) ==
    [z \in TimeZones |-> [k \in SearchKeywords |-> [p \in PostNames |->
        RowOf(Posts[p], relevance[k][p], z)]]]

row_of == RowTable(relevance_of)

\* what the four functions return on the posts of the catalogue, and the
\* rows built from them
FilterVerdicts ==
    Eager(relevance_of, LAMBDA relevance :
        [promotional |-> promotional_of, question |-> question_of,
         relevance |-> relevance, unanswered |-> unanswered_of,
         row |-> RowTable(relevance)])

Verdict(filter, passed) == [filter |-> filter, passed |-> passed]

Skipped(trail) == [end |-> "skipped", trail |-> trail, row |-> <<>>]

\* mutant: the unanswered check made before the relevance score
ClassifyUnansweredFirst(p, prm) ==
    LET post == Posts[p]
        relevance == verdicts.relevance[prm.keyword][p]
        verdict == verdicts.unanswered[prm.max_comments_threshold][p]
        t1 == <<Verdict("unanswered", ~verdict.raised /\ verdict.value)>>
        t2 == t1 \o <<Verdict("relevance", ~(FloatLess(relevance, prm.relevance_threshold)))>>
    IN  IF verdict.raised
        THEN [end |-> "raised", trail |-> t1, row |-> <<>>]
        ELSE IF ~verdict.value THEN Skipped(t1)
        ELSE IF FloatLess(relevance, prm.relevance_threshold) THEN Skipped(t2)
        ELSE [end |-> "collected", trail |-> t2, row |-> verdicts.row[tz][prm.keyword][p]]

\* one iteration of the loop body, after the early-exit test
Classify(p, prm) ==
    LET post == Posts[p]
        content_length == IF Truthy(post.selftext) THEN Len(post.selftext.v) ELSE 0
        relevance == verdicts.relevance[prm.keyword][p]
        verdict == verdicts.unanswered[prm.max_comments_threshold][p]
        t1 == IF prm.filter_promotional
              THEN <<Verdict("promotional", ~verdicts.promotional[p])>> ELSE <<>>
        t2 == IF prm.question_only_mode
              THEN t1 \o <<Verdict("question", verdicts.question[p])>> ELSE t1
        t3 == t2 \o <<Verdict("relevance", ~(FloatLess(relevance, prm.relevance_threshold)))>>
        t4 == t3 \o <<Verdict("unanswered", ~verdict.raised /\ verdict.value)>>
    IN  IF post.score < prm.min_score THEN Skipped(<<>>)
        ELSE IF content_length < prm.min_content_length /\ ~EndsWith(post.title, "?")
        THEN Skipped(<<>>)
        ELSE IF prm.filter_promotional /\ verdicts.promotional[p] THEN Skipped(t1)
        ELSE IF prm.question_only_mode /\ ~verdicts.question[p] THEN Skipped(t2)
        ELSE IF FloatLess(relevance, prm.relevance_threshold) THEN Skipped(t3)
        ELSE IF verdict.raised
        THEN [end |-> "raised", trail |-> t4, row |-> <<>>]
        ELSE IF ~verdict.value THEN Skipped(t4)
        ELSE IF ~post.selftext.some
        THEN [end |-> "raised", trail |-> t4, row |-> <<>>]
        ELSE [end |-> "collected", trail |-> t4, row |-> verdicts.row[tz][prm.keyword][p]]

\* {sub.id: sub for sub in all_submissions}.values(): one entry per id, in
\* the order of first occurrence, holding the last submission with that id
IsFirstWithId(subs, i) ==
    \A j \in 1..(i - 1) : Posts[subs[j]].id # Posts[subs[i]].id

LastWithId(subs, i) ==
    LET same == {j \in i..Len(subs) : Posts[subs[j]].id = Posts[subs[i]].id}
    IN  subs[CHOOSE j \in same : \A k \in same : j >= k]

RECURSIVE DedupFrom(_, _)
DedupFrom(subs, i) ==
    IF i > Len(subs) THEN <<>>
    ELSE (IF IsFirstWithId(subs, i) THEN <<LastWithId(subs, i)>> ELSE <<>>)
         \o DedupFrom(subs, i + 1)

\* mutant: every returned submission kept
KeepDuplicates(subs) == subs

Deduplicate(subs) == DedupFrom(subs, 1)

\* questions.sort(key=(Relevance, Created), reverse=True), a stable sort
\* the characters of a Created string, in the order of their code points
CreatedChars == " -0123456789:"

CodeRank(c) == CHOOSE i \in 1..Len(CreatedChars) : SubSeq(CreatedChars, i, i) = c

\* a < b on two strings
StrLess(a, b) ==
    \E i \in 1..Len(b) :
        /\ SubSeq(a, 1, i - 1) = SubSeq(b, 1, i - 1)
        /\ \/ Len(a) < i
           \/ CodeRank(SubSeq(a, i, i)) < CodeRank(SubSeq(b, i, i))

RowAbove(r1, r2) ==
    \/ FloatLess(ParseFloat(r2.Relevance), ParseFloat(r1.Relevance))
    \/ (ParseFloat(r1.Relevance) = ParseFloat(r2.Relevance)
        /\ StrLess(r2.Created, r1.Created))

RECURSIVE InsertRow(_, _)
InsertRow(sorted, r) ==
    IF sorted = <<>> THEN <<r>>
    ELSE IF RowAbove(r, Head(sorted)) THEN <<r>> \o sorted
    ELSE <<Head(sorted)>> \o InsertRow(Tail(sorted), r)

RECURSIVE SortFrom(_, _, _)
SortFrom(rows, i, sorted) ==
    IF i > Len(rows) THEN sorted
    ELSE SortFrom(rows, i + 1, InsertRow(sorted, rows[i]))

SortRows(rows) == SortFrom(rows, 1, <<>>)

\* bounds of the search pass
MaxPosts == 2
MaxLimit == 2

Failed == [failed |-> TRUE, posts |-> <<>>]

OutcomesOfLen(k) ==
    {[failed |-> FALSE, posts |-> r] : r \in [1..k -> PostNames]}
    \cup (IF k = 0 THEN {Failed} ELSE {})

OutcomesUpTo(n) == UNION {OutcomesOfLen(k) : k \in 0..n}

\* what the two queries return: at most MaxPosts posts in all
SearchOutcomes ==
    UNION {OutcomesOfLen(k) \X OutcomesUpTo(MaxPosts - k) : k \in 0..MaxPosts}

InitSearch ==
    /\ verdicts = FilterVerdicts
    /\ pc = "searching"
    /\ title = ""
    /\ content = None
    /\ keyword = ""
    /\ out = None
    /\ prev = None
    /\ submission = NoSubmission
    /\ max_comments = 0
    /\ reddit \in SearchOutcomes
    /\ tz \in TimeZones
    /\ params \in [keyword : SearchKeywords,
                   limit : {1, MaxLimit},
                   min_score : {DefaultMinScore},
                   relevance_threshold : RelevanceThresholds,
                   max_comments_threshold : {DefaultMaxComments},
                   question_only_mode : BOOLEAN,
                   filter_promotional : BOOLEAN,
                   min_content_length : {DefaultMinContentLength}]
    /\ term = 1
    /\ queries = <<>>
    /\ all_submissions = <<>>
    /\ unique_submissions = <<>>
    /\ processed = 0
    /\ found_unanswered = 0
    /\ questions = <<>>
    /\ warnings = <<>>
    /\ calls = <<>>

\* mutant: a failing search term ends the search loop
SearchTermStopsOnFailure ==
    /\ pc = "searching"
    /\ term <= SearchTermCount
    /\ queries' = Append(queries, Query(search_terms(params.keyword)[term],
                                         params.limit * ResultsPerLimit))
    /\ IF reddit[term].failed
       THEN /\ warnings' = Append(warnings, search_terms(params.keyword)[term])
            /\ term' = SearchTermCount + 1
            /\ UNCHANGED all_submissions
       ELSE /\ all_submissions' = all_submissions \o reddit[term].posts
            /\ term' = term + 1
            /\ UNCHANGED warnings
    /\ UNCHANGED <<pc, out, title, content, keyword, prev, classifierVars, reddit, verdicts, tz,
                   params, unique_submissions, processed, found_unanswered,
                   questions, calls>>

\* one iteration of: for search_term in search_terms[:2]
SearchTerm ==
    /\ pc = "searching"
    /\ term <= SearchTermCount
    /\ queries' = Append(queries, Query(search_terms(params.keyword)[term],
                                         params.limit * ResultsPerLimit))
    /\ IF reddit[term].failed
       THEN /\ warnings' = Append(warnings, search_terms(params.keyword)[term])
            /\ UNCHANGED all_submissions
       ELSE /\ all_submissions' = all_submissions \o reddit[term].posts
            /\ UNCHANGED warnings
    /\ term' = term + 1
    /\ UNCHANGED <<pc, out, title, content, keyword, prev, classifierVars, reddit, verdicts, tz,
                   params, unique_submissions, processed, found_unanswered,
                   questions, calls>>

\* after the search loop: duplicates removed, counters initialised
StartClassification ==
    /\ pc = "searching"
    /\ term > SearchTermCount
    /\ unique_submissions' = Deduplicate(all_submissions)
    /\ processed' = 0
    /\ found_unanswered' = 0
    /\ pc' = "classifying"
    /\ UNCHANGED <<out, title, content, keyword, prev, classifierVars, reddit, verdicts, tz,
                   queries,
                   params, term, all_submissions, questions, warnings, calls>>

\* mutant: the handler returns what had been collected
AbortKeepsRows(rows) == rows

\* except Exception: st.error(...); return []
AbortResult(rows) == <<>>

\* mutant: the loop without its early exit
ProcessPostNoEarlyExit ==
    /\ pc = "classifying"
    /\ unique_submissions # <<>>
    /\ LET p == Head(unique_submissions)
           c == Classify(p, params)
       IN  /\ calls' = Append(calls, [post |-> p, trail |-> c.trail])
           /\ CASE c.end = "raised" ->
                     /\ pc' = "done"
                     /\ out' = [error |-> TRUE, rows |-> AbortResult(questions)]
                     /\ UNCHANGED <<questions, found_unanswered>>
                [] c.end = "collected" ->
                     /\ questions' = Append(questions, c.row)
                     /\ found_unanswered' = found_unanswered + 1
                     /\ UNCHANGED <<pc, out>>
                [] OTHER ->
                     UNCHANGED <<pc, out, questions, found_unanswered>>
    /\ processed' = processed + 1
    /\ unique_submissions' = Tail(unique_submissions)
    /\ UNCHANGED <<title, content, keyword, prev, classifierVars, reddit, verdicts, tz,
                   queries, params,
                   term, all_submissions, warnings>>

\* one iteration of: for submission in unique_submissions
ProcessPost ==
    /\ pc = "classifying"
    /\ unique_submissions # <<>>
    /\ found_unanswered < params.limit
    /\ LET p == Head(unique_submissions)
           c == Classify(p, params)
       IN  /\ calls' = Append(calls, [post |-> p, trail |-> c.trail])
           /\ CASE c.end = "raised" ->
                     /\ pc' = "done"
                     /\ out' = [error |-> TRUE, rows |-> AbortResult(questions)]
                     /\ UNCHANGED <<questions, found_unanswered>>
                [] c.end = "collected" ->
                     /\ questions' = Append(questions, c.row)
                     /\ found_unanswered' = found_unanswered + 1
                     /\ UNCHANGED <<pc, out>>
                [] OTHER ->
                     UNCHANGED <<pc, out, questions, found_unanswered>>
    /\ processed' = processed + 1
    /\ unique_submissions' = Tail(unique_submissions)
    /\ UNCHANGED <<title, content, keyword, prev, classifierVars, reddit, verdicts, tz,
                   queries, params,
                   term, all_submissions, warnings>>

\* after the loop: the rows sorted and returned
Finish ==
    /\ pc = "classifying"
    /\ (unique_submissions = <<>> \/ found_unanswered >= params.limit)
    /\ questions' = SortRows(questions)
    /\ out' = [error |-> FALSE, rows |-> questions']
    /\ pc' = "done"
    /\ UNCHANGED <<title, content, keyword, prev, classifierVars, reddit, verdicts, tz,
                   queries, params,
                   term, all_submissions, unique_submissions, processed,
                   found_unanswered, warnings, calls>>

NextSearch == SearchTerm \/ StartClassification \/ ProcessPost \/ Finish

SpecSearch == InitSearch /\ [][NextSearch]_vars

-----------------------------------------------------------------------------
(* Properties of the search pass                                           *)

\* the filters a post may meet, in the order of the loop body
FilterOrder ==
    (IF params.filter_promotional THEN <<"promotional">> ELSE <<>>)
    \o (IF params.question_only_mode THEN <<"question">> ELSE <<>>)
    \o <<"relevance", "unanswered">>

\* what a filter function says of a post, from the function itself
RefPassed(p, filter) ==
    CASE filter = "promotional" -> ~promotional_of[p]
      [] filter = "question" -> question_of[p]
      [] filter = "relevance" ->
            ~FloatLess(relevance_of[params.keyword][p], params.relevance_threshold)
      [] filter = "unanswered" ->
            LET v == unanswered_of[params.max_comments_threshold][p]
            IN  ~v.raised /\ v.value

PassedEveryFilter(call) ==
    /\ Len(call.trail) = Len(FilterOrder)
    /\ \A j \in 1..Len(call.trail) : call.trail[j].passed

RefRow(p) == row_of[tz][params.keyword][p]

\* C8: the filters are called on each post in the order promotional,
\* question, relevance, unanswered, stopping at the first one that fails;
\* the unanswered check is reached only after the enabled filters before it
\* passed, and every collected or returned row is that of a post which
\* passed every filter and was classified unanswered.
C8_FiltersInOrder ==
    (pc \in {"classifying", "done"}) =>
        /\ \A i \in 1..Len(calls) :
              LET t == calls[i].trail
              IN  /\ Len(t) <= Len(FilterOrder)
                  /\ \A j \in 1..Len(t) :
                        /\ t[j].filter = FilterOrder[j]
                        /\ t[j].passed = RefPassed(calls[i].post, t[j].filter)
                        /\ (j < Len(t) => t[j].passed)
                  /\ (0 < Len(t) /\ Len(t) < Len(FilterOrder)
                        => ~t[Len(t)].passed)
        /\ \A k \in 1..Len(questions) :
              \E i \in 1..Len(calls) :
                  /\ PassedEveryFilter(calls[i])
                  /\ questions[k] = RefRow(calls[i].post)
        /\ (pc = "done" =>
              \A k \in 1..Len(out.rows) :
                  \E i \in 1..Len(calls) :
                      /\ PassedEveryFilter(calls[i])
                      /\ out.rows[k] = RefRow(calls[i].post))

\* with every filter on: one post stopped at the promotional check, another
\* went through the four filters and is returned
C8_Witness ==
    /\ pc = "done"
    /\ params.filter_promotional
    /\ params.question_only_mode
    /\ Len(calls) = 2
    /\ calls[1].trail = <<Verdict("promotional", FALSE)>>
    /\ PassedEveryFilter(calls[2])
    /\ out.rows = <<RefRow(calls[2].post)>>

\* what a search term returned, none if it failed
RefReturned(t) ==
    IF reddit[t].failed THEN <<>>
    ELSE reddit[t].posts

RefWarning(t) ==
    IF reddit[t].failed THEN <<search_terms(params.keyword)[t]>> ELSE <<>>

RECURSIVE RefCandidates(_)
RefCandidates(n) ==
    IF n = 0 THEN <<>> ELSE RefCandidates(n - 1) \o RefReturned(n)

RECURSIVE RefWarnings(_)
RefWarnings(n) ==
    IF n = 0 THEN <<>> ELSE RefWarnings(n - 1) \o RefWarning(n)

AttemptedTerms == IF pc = "searching" THEN term - 1 ELSE SearchTermCount

ClassifiedPosts == [i \in 1..Len(calls) |-> calls[i].post]

\* the post on which the pass was aborted: its unanswered check raised
AbortedOnLastPost ==
    /\ calls # <<>>
    /\ unanswered_of[params.max_comments_threshold][calls[Len(calls)].post].raised
    /\ LET t == calls[Len(calls)].trail
       IN  t # <<>> /\ t[Len(t)].filter = "unanswered"

\* C9: a search term whose call fails is skipped with a warning and the
\* other term is still attempted; the candidates are the posts of the terms
\* that succeeded, they are the posts classified, and a result list is
\* returned: the pass is never aborted by the failure of a term.
C9_FailedTermSkipped ==
    (pc \in {"searching", "classifying", "done"}) =>
        /\ warnings = RefWarnings(AttemptedTerms)
        /\ all_submissions = RefCandidates(AttemptedTerms)
        /\ (pc # "searching" =>
              /\ term = SearchTermCount + 1
              /\ ClassifiedPosts \o unique_submissions
                    = Deduplicate(RefCandidates(SearchTermCount)))
        /\ (pc = "done" =>
              /\ (out.error => AbortedOnLastPost)
              /\ (~out.error =>
                    \/ unique_submissions = <<>>
                    \/ Len(out.rows) = params.limit))

\* the first term failed, the second returned a post, which is in the result
C9_Witness ==
    /\ pc = "done"
    /\ reddit[1].failed
    /\ ~reddit[2].failed
    /\ warnings = <<params.keyword>>
    /\ Len(calls) = 1
    /\ calls[1].post = reddit[2].posts[1]
    /\ ~out.error
    /\ out.rows = <<RefRow(calls[1].post)>>

\* C10: a failure raised in the classification pass ends the invocation
\* with the error reported and the empty list returned, whatever rows had
\* been collected; the invocation returns.
C10_AbortReturnsEmpty ==
    /\ (pc \in {"classifying", "done"} /\ AbortedOnLastPost) =>
          /\ pc = "done"
          /\ out.error
    /\ (pc = "done" /\ out.error) => out.rows = <<>>

\* a row had been collected when the next post's check raised
C10_Witness ==
    /\ pc = "done"
    /\ AbortedOnLastPost
    /\ questions # <<>>
    /\ out.error
    /\ out.rows = <<>>

\* the identifiers of the posts the client can return
PostIds == {Posts[p].id : p \in PostNames}

\* the calls made on the post with this identifier
CallsOn(id) == {i \in 1..Len(calls) : Posts[calls[i].post].id = id}

\* the rows of a list that describe the post with this identifier
RowsOf(rows, id) ==
    {k \in 1..Len(rows) :
        \E p \in PostNames : Posts[p].id = id /\ rows[k] = RefRow(p)}

\* C11: an invocation issues at most two queries, the keyword and then
\* "keyword help"; a post is classified at most once and gives at most one
\* row, however many times the queries returned it.
C11_TwoQueriesDeduplicated ==
    (pc \in {"searching", "classifying", "done"}) =>
        /\ Len(queries) <= 2
        /\ \A i \in 1..Len(queries) :
              queries[i].search_term
                  = <<params.keyword, params.keyword \o " help">>[i]
        /\ \A id \in PostIds :
              /\ Cardinality(CallsOn(id)) <= 1
              /\ Cardinality(RowsOf(questions, id)) <= 1
              /\ (pc = "done" => Cardinality(RowsOf(out.rows, id)) <= 1)
              /\ (CallsOn(id) # {} =>
                    \A j \in 1..Len(unique_submissions) :
                        Posts[unique_submissions[j]].id # id)

\* both queries returned the same post: one call, one row
C11_Witness ==
    /\ pc = "done"
    /\ Len(queries) = 2
    /\ queries[1].search_term = "seo course"
    /\ queries[2].search_term = "seo course help"
    /\ reddit[1] = [failed |-> FALSE, posts |-> <<"a">>]
    /\ reddit[2] = [failed |-> FALSE, posts |-> <<"a2">>]
    /\ Len(calls) = 1
    /\ Len(out.rows) = 1

\* C12: in the processing loop the counter equals the number of collected
\* rows and never exceeds limit; the post that brought the counter to limit
\* is the last one on which any filter was called, its row is among those
\* collected, and at most limit rows are returned.
C12_SoftEarlyExit ==
    (pc \in {"classifying", "done"}) =>
        /\ found_unanswered = Len(questions)
        /\ found_unanswered <= params.limit
        /\ processed = Len(calls)
        /\ (found_unanswered = params.limit =>
              /\ calls # <<>>
              /\ PassedEveryFilter(calls[Len(calls)])
              /\ \E k \in 1..Len(questions) :
                    questions[k] = RefRow(calls[Len(calls)].post))
        /\ (pc = "done" => Len(out.rows) <= params.limit)

\* limit 1: the first post qualified, the second was never looked at
C12_Witness ==
    /\ pc = "done"
    /\ params.limit = 1
    /\ Len(Deduplicate(all_submissions)) = 2
    /\ Len(calls) = 1
    /\ unique_submissions = <<all_submissions[2]>>
    /\ found_unanswered = 1
    /\ Len(out.rows) = 1

====
